---- MODULE Spec2Model ----
(***************************************************************************)
(* GPU price tracker: scrape.py (price / stock extraction, the run         *)
(* orchestrator, snapshot and history) and discover.py (retailer target    *)
(* discovery).                                                             *)
(*                                                                         *)
(* Conventions of the model                                                *)
(*  - a text is a sequence of one-character strings, so that the regular   *)
(*    expressions and the substring tests of the code are computed on the  *)
(*    characters they read;                                                *)
(*  - a price is an integer number of cents (every float the code parses   *)
(*    has at most two decimals), None is the Python None;                  *)
(*  - a date is the day number of the "%Y-%m-%d" string: for the four      *)
(*    digit years strftime writes, the string order sorted() uses is the   *)
(*    order of the day numbers.                                            *)
(***************************************************************************)
EXTENDS Integers, Sequences, FiniteSets, TLC

VARIABLES
    stores,     \* main: the Store list of config/stores.yml
    pc,         \* main: "scrape" | "snapshot" | "history" | "done"
    idx,        \* main: position of the for-loop over stores
    results,    \* main: the accumulating result list
    latest,     \* out/latest.json: the Snapshot last written
    hist,       \* out/history.json: the stored History Series
    rendered,   \* observer: what the renderer gave for each store of the run
    runlog,     \* observer: one record per completed history update
    doc,        \* extraction: the rendered page handed to scrape_store
    store,      \* extraction: the Store handed to scrape_store
    res,        \* extraction: <<what scrape_store returned>>, <<>> before
    tried,      \* observer: the strategies scrape_store evaluated, in order
    catalog,    \* discover: config/retailers.yml
    dpc,        \* discover: "start" | "IndentationError" | "done"
    written     \* discover: config/stores.yml, once written

mainVars == <<stores, pc, idx, results, latest, hist, rendered, runlog>>

extractVars == <<doc, store, res, tried>>

discoverVars == <<catalog, dpc, written>>

vars == <<mainVars, extractVars, discoverVars>>

-----------------------------------------------------------------------------
(* Python None for a price (prices are >= 0 cents).                        *)
None == 0 - 1

Digits == <<"0", "1", "2", "3", "4", "5", "6", "7", "8", "9">>

IsDigit(c) == \E i \in 1..10 : Digits[i] = c

DigitVal(c) == (CHOOSE i \in 1..10 : Digits[i] = c) - 1

(* \s of the regular expressions.                                          *)
IsSpace(c) == c = " "

UpperCase == <<"A", "B", "C", "D", "E", "F", "G", "H", "I", "J", "K", "L", "M",
               "N", "O", "P", "Q", "R", "S", "T", "U", "V", "W", "X", "Y", "Z">>

LowerCase == <<"a", "b", "c", "d", "e", "f", "g", "h", "i", "j", "k", "l", "m",
               "n", "o", "p", "q", "r", "s", "t", "u", "v", "w", "x", "y", "z">>

(* str.lower()                                                             *)
Lower(t) ==
    [i \in 1..Len(t) |->
        IF \E k \in 1..26 : UpperCase[k] = t[i]
        THEN LowerCase[CHOOSE k \in 1..26 : UpperCase[k] = t[i]]
        ELSE t[i]]

(* `tok in text`                                                           *)
Contains(text, tok) ==
    \E i \in 1..(Len(text) - Len(tok) + 1) :
        SubSeq(text, i, i + Len(tok) - 1) = tok

-----------------------------------------------------------------------------
(* The number pattern shared by PRICE_RE, AUD_NEAR_RE and the two patterns *)
(* of try_regex_price:  [0-9]{1,3}(?:,[0-9]{3})*(?:\.[0-9]{2})?            *)
(* Every part after the first digit is optional, so the greedy match never *)
(* backtracks: NumEnd is the index after the match that starts at digit i. *)

DigitAt(t, i) == i >= 1 /\ i <= Len(t) /\ IsDigit(t[i])

(* [0-9]{1,3}: at most three leading digits are taken.                     *)
LeadEnd(t, i) ==
    IF DigitAt(t, i + 1)
    THEN IF DigitAt(t, i + 2) THEN i + 3 ELSE i + 2
    ELSE i + 1

RECURSIVE GroupsEnd(_, _)
(* (?:,[0-9]{3})*                                                          *)
GroupsEnd(t, j) ==
    IF j <= Len(t) /\ t[j] = "," /\ DigitAt(t, j + 1) /\ DigitAt(t, j + 2)
       /\ DigitAt(t, j + 3)
    THEN GroupsEnd(t, j + 4)
    ELSE j

(* (?:\.[0-9]{2})?                                                         *)
FracEnd(t, j) ==
    IF j <= Len(t) /\ t[j] = "." /\ DigitAt(t, j + 1) /\ DigitAt(t, j + 2)
    THEN j + 3
    ELSE j

NumEnd(t, i) == FracEnd(t, GroupsEnd(t, LeadEnd(t, i)))

RECURSIVE DigitsValue(_)
DigitsValue(ds) ==
    IF ds = <<>> THEN 0
    ELSE 10 * DigitsValue(SubSeq(ds, 1, Len(ds) - 1)) + DigitVal(ds[Len(ds)])

(* float(v.replace(",", "")) of a text made of digits and commas, with an  *)
(* optional "." and decimals, in cents.                                    *)
ToCents(v) ==
    LET nocomma == SelectSeq(v, LAMBDA c : c # ",")
        dots    == {i \in 1..Len(nocomma) : nocomma[i] = "."}
        dot     == IF dots = {} THEN Len(nocomma) + 1
                   ELSE CHOOSE i \in dots : \A k \in dots : i <= k
        whole   == SubSeq(nocomma, 1, dot - 1)
        frac    == SubSeq(nocomma, dot + 1, Len(nocomma))
        cents   == IF Len(frac) = 0 THEN 0
                   ELSE IF Len(frac) = 1 THEN 10 * DigitVal(frac[1])
                   ELSE 10 * DigitVal(frac[1]) + DigitVal(frac[2])
    IN  100 * DigitsValue(whole) + cents

Min(S) == CHOOSE x \in S : \A y \in S : x <= y

RECURSIVE SkipSpaces(_, _)
(* \s*                                                                     *)
SkipSpaces(t, i) ==
    IF i <= Len(t) /\ IsSpace(t[i]) THEN SkipSpaces(t, i + 1) ELSE i

(* Where group 1 of AUD_NEAR_RE.search starts: the digit after the first   *)
(* "$" that is followed by optional blanks and a digit; 0 when no match.   *)
AudNearStart(t) ==
    LET hits == {i \in 1..Len(t) : t[i] = "$" /\ DigitAt(t, SkipSpaces(t, i + 1))}
    IN  IF hits = {} THEN 0 ELSE SkipSpaces(t, Min(hits) + 1)

(* Where group 1 of PRICE_RE.search starts: \$?\s* are optional, so the    *)
(* leftmost match captures from the first digit of the text; 0 if none.    *)
PriceReStart(t) ==
    LET hits == {i \in 1..Len(t) : IsDigit(t[i])}
    IN  IF hits = {} THEN 0 ELSE Min(hits)

extract_price_number(text) ==
    IF text = <<>> THEN None
    ELSE LET a == AudNearStart(text)
             m == IF a # 0 THEN a ELSE PriceReStart(text)
         IN  IF m = 0 THEN None
             ELSE ToCents(SubSeq(text, m, NumEnd(text, m) - 1))

PlausibleLow == 50000

PlausibleHigh == 500000

(* is_plausible_gpu_price with the bounds excluded.                        *)
is_plausible_gpu_price_Open(v) ==
    IF v = None THEN FALSE
    ELSE PlausibleLow < v /\ v < PlausibleHigh

is_plausible_gpu_price(v) ==
    IF v = None THEN FALSE
    ELSE PlausibleLow <= v /\ v <= PlausibleHigh

-----------------------------------------------------------------------------
(* try_css_price.  els is the list of elements soup.select_one returns for *)
(* the selectors, in selector order (a selector that matches nothing is    *)
(* skipped by the loop).  An element is [name, content, value, text]:      *)
(* the tag name, its content= and value= attributes and its get_text().    *)

Element(name, content, text) ==
    [name |-> name, content |-> content, value |-> <<>>, text |-> text]

(* Python's `a or b` on two texts.                                         *)
TextOr(a, b) == IF a # <<>> THEN a ELSE b

RECURSIVE CssFrom(_, _)
CssFrom(els, i) ==
    IF i > Len(els) THEN None
    ELSE LET el == els[i]
             pm == IF el.name = "meta"
                   THEN extract_price_number(TextOr(el.content, el.value))
                   ELSE None
             pt == extract_price_number(el.text)
         IN  IF el.name = "meta" /\ pm # None /\ is_plausible_gpu_price(pm)
             THEN pm
             ELSE IF pt # None /\ is_plausible_gpu_price(pt)
             THEN pt
             ELSE CssFrom(els, i + 1)

try_css_price(els) == CssFrom(els, 1)

-----------------------------------------------------------------------------
(* JSON values as json.loads returns them.  t is the Python type, c the    *)
(* number in cents (int, float), txt the characters (str), items the       *)
(* <<key, value>> pairs of a dict in insertion order or the elements of a  *)
(* list.                                                                   *)

JInt(c)     == [t |-> "int", c |-> c, txt |-> <<>>, items |-> <<>>]

JFloat(c)   == [t |-> "float", c |-> c, txt |-> <<>>, items |-> <<>>]

JStr(txt)   == [t |-> "str", c |-> 0, txt |-> txt, items |-> <<>>]

JDict(kvs)  == [t |-> "dict", c |-> 0, txt |-> <<>>, items |-> kvs]

JList(vs)   == [t |-> "list", c |-> 0, txt |-> <<>>, items |-> vs]

RECURSIVE DigitsOf(_)
(* str() of a non-negative integer.                                        *)
DigitsOf(n) ==
    IF n < 10 THEN <<Digits[n + 1]>>
    ELSE DigitsOf(n \div 10) \o <<Digits[(n % 10) + 1]>>

(* str() of a float with at most two decimals: 1899.0, 1899.5, 1899.05.    *)
FloatStr(c) ==
    DigitsOf(c \div 100) \o <<".">> \o
        (IF c % 100 = 0 THEN <<"0">>
         ELSE IF c % 10 = 0 THEN <<Digits[((c % 100) \div 10) + 1]>>
         ELSE <<Digits[((c % 100) \div 10) + 1], Digits[(c % 10) + 1]>>)

RECURSIVE PyStr(_)
RECURSIVE PyStrItems(_, _, _)
(* str(obj[k]).  For a dict or a list this is its repr; a key is written   *)
(* 'k' (no key of the model holds a digit, a "$" or a blank, the only      *)
(* characters the price patterns read).                                    *)
PyStr(v) ==
    CASE v.t = "int"   -> DigitsOf(v.c \div 100)
      [] v.t = "float" -> FloatStr(v.c)
      [] v.t = "str"   -> v.txt
      [] v.t = "dict"  -> <<"{">> \o PyStrItems(v.items, 1, TRUE) \o <<"}">>
      [] v.t = "list"  -> <<"[">> \o PyStrItems(v.items, 1, FALSE) \o <<"]">>

PyStrItems(items, i, keyed) ==
    IF i > Len(items) THEN <<>>
    ELSE (IF i > 1 THEN <<",", " ">> ELSE <<>>)
         \o (IF keyed THEN <<"'", "k", "'", ":", " ">> \o PyStr(items[i][2])
             ELSE PyStr(items[i]))
         \o PyStrItems(items, i + 1, keyed)

(* Python truth value of a JSON value.                                     *)
Truthy(v) ==
    CASE v.t \in {"int", "float"} -> v.c # 0
      [] v.t = "str"              -> v.txt # <<>>
      [] v.t \in {"dict", "list"} -> v.items # <<>>

HasKey(d, k) == \E i \in 1..Len(d.items) : d.items[i][1] = k

Get(d, k) == d.items[CHOOSE i \in 1..Len(d.items) : d.items[i][1] = k][2]

PriceKeys == <<"price", "priceAmount", "lowPrice", "highPrice">>

(* The loop over the four price-bearing keys of walk.                      *)
KeyHit(d) ==
    LET hits == {i \in 1..Len(PriceKeys) :
                    /\ HasKey(d, PriceKeys[i])
                    /\ is_plausible_gpu_price(
                           extract_price_number(PyStr(Get(d, PriceKeys[i]))))}
    IN  IF hits = {} THEN None
        ELSE extract_price_number(PyStr(Get(d, PriceKeys[Min(hits)])))

RECURSIVE walk(_)
RECURSIVE WalkEach(_, _, _)
(* walk of try_jsonld_price.                                               *)
walk(obj) ==
    IF obj.t = "dict"
    THEN LET viaKey(k) == IF HasKey(obj, k) /\ Truthy(Get(obj, k))
                          THEN walk(Get(obj, k)) ELSE None
             aggOffer  == HasKey(obj, "aggregateOffer")
                          /\ Truthy(Get(obj, "aggregateOffer"))
             viaAgg    == IF aggOffer THEN walk(Get(obj, "aggregateOffer"))
                          ELSE viaKey("aggregateRating")
         IN  IF KeyHit(obj) # None THEN KeyHit(obj)
             ELSE IF viaKey("offers") # None THEN viaKey("offers")
             ELSE IF viaKey("@graph") # None THEN viaKey("@graph")
             ELSE IF viaAgg # None THEN viaAgg
             ELSE WalkEach(obj.items, 1, TRUE)
    ELSE IF obj.t = "list"
    THEN WalkEach(obj.items, 1, FALSE)
    ELSE None

(* `for v in obj.values()` / `for v in obj`: the first walk that is not    *)
(* None.                                                                   *)
WalkEach(items, i, keyed) ==
    IF i > Len(items) THEN None
    ELSE LET p == walk(IF keyed THEN items[i][2] ELSE items[i])
         IN  IF p # None THEN p ELSE WalkEach(items, i + 1, keyed)

(* The crude fallback of try_jsonld_price on a raw text json.loads         *)
(* rejects:  "price"\s*:\s*"?(?P<val>[0-9,]+\.\d{2})"?                     *)
(* FallbackEnd is the index after group val when the pattern matches with  *)
(* "price" at i, 0 when it does not.                                       *)
QuotedPrice == <<"\"", "p", "r", "i", "c", "e", "\"">>

RECURSIVE NumCommaEnd(_, _)
NumCommaEnd(t, j) ==
    IF j <= Len(t) /\ (IsDigit(t[j]) \/ t[j] = ",")
    THEN NumCommaEnd(t, j + 1) ELSE j

FallbackValStart(raw, i) ==
    LET colon == SkipSpaces(raw, i + Len(QuotedPrice))
        after == SkipSpaces(raw, colon + 1)
    IN  IF colon <= Len(raw) /\ raw[colon] = ":"
        THEN IF after <= Len(raw) /\ raw[after] = "\"" THEN after + 1 ELSE after
        ELSE 0

FallbackEnd(raw, i) ==
    LET s == FallbackValStart(raw, i)
        e == NumCommaEnd(raw, s)
    IN  IF /\ i + Len(QuotedPrice) - 1 <= Len(raw)
           /\ SubSeq(raw, i, i + Len(QuotedPrice) - 1) = QuotedPrice
           /\ s # 0 /\ e > s
           /\ e <= Len(raw) /\ raw[e] = "."
           /\ DigitAt(raw, e + 1) /\ DigitAt(raw, e + 2)
        THEN e + 3 ELSE 0

(* A script block is [kind, data, raw]: kind "empty" (no text), "json"     *)
(* (json.loads returns data) or "broken" (json.loads raises on raw).       *)
JsonBlock(data) == [kind |-> "json", data |-> data, raw |-> <<>>]

BrokenBlock(raw) == [kind |-> "broken", data |-> JStr(<<>>), raw |-> raw]

EmptyBlock == [kind |-> "empty", data |-> JStr(<<>>), raw |-> <<>>]

RECURSIVE JsonldFrom(_, _)
JsonldFrom(blocks, i) ==
    IF i > Len(blocks) THEN None
    ELSE LET b == blocks[i]
         IN  CASE b.kind = "empty" -> JsonldFrom(blocks, i + 1)
               [] b.kind = "broken" ->
                    LET hits == {k \in 1..Len(b.raw) : FallbackEnd(b.raw, k) # 0}
                        k0   == Min(hits)
                        p    == ToCents(SubSeq(b.raw, FallbackValStart(b.raw, k0),
                                               FallbackEnd(b.raw, k0) - 1))
                    IN  IF hits # {}
                        THEN (IF is_plausible_gpu_price(p) THEN p ELSE None)
                        ELSE JsonldFrom(blocks, i + 1)
               [] b.kind = "json" ->
                    LET p == walk(b.data)
                    IN  IF p # None /\ is_plausible_gpu_price(p) THEN p
                        ELSE JsonldFrom(blocks, i + 1)

try_jsonld_price(blocks) == JsonldFrom(blocks, 1)

-----------------------------------------------------------------------------
(* try_regex_price.  html is read as the list of its currency occurrences, *)
(* left to right: [kw, amt] where amt is the text after "A?$" and blanks   *)
(* and kw says that one of price|now|today|was stands before the sign with *)
(* at most 80 characters other than "$", "A", "a" in between (the first    *)
(* pattern).  The second pattern matches every occurrence whose amt starts *)
(* with a digit.                                                           *)

Occurrence(kw, amt) == [kw |-> kw, amt |-> amt]

Amount(o) == ToCents(SubSeq(o.amt, 1, NumEnd(o.amt, 1) - 1))

Max(S) == CHOOSE x \in S : \A y \in S : x >= y

try_regex_price(html) ==
    LET matches == {i \in 1..Len(html) : DigitAt(html[i].amt, 1)}
        near    == {i \in matches : html[i].kw}
        cand    == IF near # {} THEN near ELSE matches
        ok      == {Amount(html[i]) : i \in {k \in cand : is_plausible_gpu_price(Amount(html[k]))}}
    IN  IF ok # {} THEN Max(ok) ELSE None

-----------------------------------------------------------------------------
(* detect_in_stock.  texts is the get_text() of the elements the stock     *)
(* selectors match, in selector order; needle is in_stock_text (<<>> for   *)
(* None or "").  The result is "True", "False" or "None".                  *)

t_in_stock == <<"i", "n", " ", "s", "t", "o", "c", "k">>

t_available == <<"a", "v", "a", "i", "l", "a", "b", "l", "e">>

t_in_store == <<"i", "n", "-", "s", "t", "o", "r", "e">>

t_ready_to_ship == <<"r", "e", "a", "d", "y", " ", "t", "o", " ", "s", "h", "i", "p">>

t_in_stock_online == <<"i", "n", " ", "s", "t", "o", "c", "k", " ", "o", "n", "l", "i", "n", "e">>

t_out_of_stock == <<"o", "u", "t", " ", "o", "f", " ", "s", "t", "o", "c", "k">>

t_sold_out == <<"s", "o", "l", "d", " ", "o", "u", "t">>

t_unavailable == <<"u", "n", "a", "v", "a", "i", "l", "a", "b", "l", "e">>

t_pre_order == <<"p", "r", "e", "-", "o", "r", "d", "e", "r">>

t_backorder == <<"b", "a", "c", "k", "o", "r", "d", "e", "r">>

AffirmativeToks ==
    {t_in_stock, t_available, t_in_store, t_ready_to_ship, t_in_stock_online}

NegativeToks ==
    {t_out_of_stock, t_sold_out, t_unavailable, t_pre_order, t_backorder}

RECURSIVE StockFrom(_, _, _)
StockFrom(texts, needle, i) ==
    IF i > Len(texts) THEN "None"
    ELSE LET text == Lower(texts[i])
         IN  IF needle # <<>>
             THEN (IF Contains(text, Lower(needle)) THEN "True" ELSE "False")
             ELSE IF \E tok \in AffirmativeToks : Contains(text, tok) THEN "True"
             ELSE IF \E tok \in NegativeToks : Contains(text, tok) THEN "False"
             ELSE StockFrom(texts, needle, i + 1)

detect_in_stock(texts, needle) == StockFrom(texts, needle, 1)

-----------------------------------------------------------------------------
(* scrape_store after page.goto / page.content succeeded.  d is the        *)
(* rendered page: the elements its price and stock selectors match, its    *)
(* ld+json script blocks and the currency occurrences of its html.  s is   *)
(* the Store.                                                              *)

NoError == "<no error key>"

(* 1) store-provided selectors first                                       *)
PriceAfterStore(d, s) ==
    IF s.price_selector THEN try_css_price(d.store_els) ELSE None

(* 2) generic CSS selectors                                                *)
PriceAfterGeneric(d, s) ==
    IF PriceAfterStore(d, s) = None THEN try_css_price(d.generic_els)
    ELSE PriceAfterStore(d, s)

(* 3) JSON-LD offers                                                       *)
PriceAfterJsonld(d, s) ==
    IF PriceAfterGeneric(d, s) = None THEN try_jsonld_price(d.jsonld)
    ELSE PriceAfterGeneric(d, s)

(* 4) regex fallback over whole HTML                                       *)
ResolvePrice(d, s) ==
    IF PriceAfterJsonld(d, s) = None THEN try_regex_price(d.html)
    ELSE PriceAfterJsonld(d, s)

(* The strategies the four steps call, in the order they are called.       *)
Tried(d, s) ==
    (IF s.price_selector THEN <<"store">> ELSE <<>>)
    \o (IF PriceAfterStore(d, s) = None THEN <<"generic">> ELSE <<>>)
    \o (IF PriceAfterGeneric(d, s) = None THEN <<"jsonld">> ELSE <<>>)
    \o (IF PriceAfterJsonld(d, s) = None THEN <<"regex">> ELSE <<>>)

scrape_store(d, s) ==
    [store    |-> s.name,
     price_aud |-> ResolvePrice(d, s),
     in_stock |-> detect_in_stock(d.stock_els, s.in_stock_text),
     url      |-> s.url,
     error    |-> NoError]

-----------------------------------------------------------------------------
(* Texts of the pages of the model.                                        *)

(* $1,899.00 *)
T_1899 == <<"$", "1", ",", "8", "9", "9", ".", "0", "0">>

(* $999.00 *)
T_999 == <<"$", "9", "9", "9", ".", "0", "0">>

(* $500 *)
T_low == <<"$", "5", "0", "0">>

(* $499.99 *)
T_below == <<"$", "4", "9", "9", ".", "9", "9">>

(* $5,000.00 *)
T_high == <<"$", "5", ",", "0", "0", "0", ".", "0", "0">>

(* $5,000.01 *)
T_above == <<"$", "5", ",", "0", "0", "0", ".", "0", "1">>

(* $520.00 per week *)
T_week_in ==
    <<"$", "5", "2", "0", ".", "0", "0", " ", "p", "e", "r", " ", "w", "e",
      "e", "k">>

(* $45.00 per week *)
T_week_out ==
    <<"$", "4", "5", ".", "0", "0", " ", "p", "e", "r", " ", "w", "e", "e",
      "k">>

(* $1899.00 *)
T_nocomma == <<"$", "1", "8", "9", "9", ".", "0", "0">>

(* 2,499.00 *)
T_meta_2499 == <<"2", ",", "4", "9", "9", ".", "0", "0">>

(* 1,899.00 *)
T_str_1899 == <<"1", ",", "8", "9", "9", ".", "0", "0">>

(* 1899.00 *)
T_str_nocomma == <<"1", "8", "9", "9", ".", "0", "0">>

(* {"price": "12.50",} *)
T_raw_cheap ==
    <<"{", "\"", "p", "r", "i", "c", "e", "\"", ":", " ", "\"", "1", "2",
      ".", "5", "0", "\"", ",", "}">>

(* {"price": 5000.01,} *)
T_raw_above ==
    <<"{", "\"", "p", "r", "i", "c", "e", "\"", ":", " ", "5", "0", "0", "0",
      ".", "0", "1", ",", "}">>

(* {"price": "1899.00",} *)
T_raw_1899 ==
    <<"{", "\"", "p", "r", "i", "c", "e", "\"", ":", " ", "\"", "1", "8",
      "9", "9", ".", "0", "0", "\"", ",", "}">>

(* 1,899.00 *)
T_amt_1899 == <<"1", ",", "8", "9", "9", ".", "0", "0">>

(* 2,499.00 *)
T_amt_2499 == <<"2", ",", "4", "9", "9", ".", "0", "0">>

(* 520.00 per week *)
T_amt_week_in ==
    <<"5", "2", "0", ".", "0", "0", " ", "p", "e", "r", " ", "w", "e", "e",
      "k">>

(* 45 per week *)
T_amt_week_out == <<"4", "5", " ", "p", "e", "r", " ", "w", "e", "e", "k">>

(* 45 *)
T_amt_45 == <<"4", "5">>

(* 5,000.01 *)
T_amt_above == <<"5", ",", "0", "0", "0", ".", "0", "1">>

(* 499.99 *)
T_amt_below == <<"4", "9", "9", ".", "9", "9">>

(* 5,000.00 *)
T_amt_high == <<"5", ",", "0", "0", "0", ".", "0", "0">>

(* 500 *)
T_amt_low == <<"5", "0", "0">>

(* per week *)
T_per_week == <<"p", "e", "r", " ", "w", "e", "e", "k">>

(* In stock *)
S_in_stock == <<"I", "n", " ", "s", "t", "o", "c", "k">>

(* Out of stock online *)
S_out_online ==
    <<"O", "u", "t", " ", "o", "f", " ", "s", "t", "o", "c", "k", " ", "o",
      "n", "l", "i", "n", "e">>

(* Ready to ship *)
S_ready == <<"R", "e", "a", "d", "y", " ", "t", "o", " ", "s", "h", "i", "p">>

(* Available for pre-order *)
S_preorder ==
    <<"A", "v", "a", "i", "l", "a", "b", "l", "e", " ", "f", "o", "r", " ",
      "p", "r", "e", "-", "o", "r", "d", "e", "r">>

(* Currently unavailable *)
S_unavailable ==
    <<"C", "u", "r", "r", "e", "n", "t", "l", "y", " ", "u", "n", "a", "v",
      "a", "i", "l", "a", "b", "l", "e">>

(* Ships in 3 days *)
S_unrelated ==
    <<"S", "h", "i", "p", "s", " ", "i", "n", " ", "3", " ", "d", "a", "y",
      "s">>

(* Sold out *)
S_sold_out == <<"S", "o", "l", "d", " ", "o", "u", "t">>

(* Add to cart *)
S_add_to_cart == <<"A", "d", "d", " ", "t", "o", " ", "c", "a", "r", "t">>

(* in stock *)
N_in_stock == <<"i", "n", " ", "s", "t", "o", "c", "k">>

-----------------------------------------------------------------------------
(* Rendered pages.                                                         *)

MkDoc(store_els, generic_els, jsonld, html, stock_els) ==
    [store_els |-> store_els, generic_els |-> generic_els, jsonld |-> jsonld,
     html |-> html, stock_els |-> stock_els]

Span(text) == Element("span", <<>>, text)

Meta(content) == Element("meta", content, <<>>)

MkStore(name, url, price_selector, in_stock_text) ==
    [name |-> name, url |-> url, price_selector |-> price_selector,
     in_stock_text |-> in_stock_text]

-----------------------------------------------------------------------------
(* main(): the run orchestrator.                                           *)

MaxStores == 3

MaxRuns == 2

Retention == 365

(* The stores of config/stores.yml.                                        *)
StorePool ==
    <<MkStore("scorptec", "u1", TRUE, <<>>),
      MkStore("msy", "u2", FALSE, <<>>),
      MkStore("ple", "u3", TRUE, N_in_stock),
      MkStore("umart", "u4", FALSE, <<>>),
      MkStore("jw", "u5", TRUE, <<>>)>>

StoreLists == {SubSeq(StorePool, 1, n) : n \in 0..MaxStores}

OkPage(d) == [ok |-> TRUE, doc |-> d, error |-> ""]

FailedPage(msg) == [ok |-> FALSE, doc |-> MkDoc(<<>>, <<>>, <<>>, <<>>, <<>>), error |-> msg]

(* What page.goto / page.content / the extraction can give for a url: a    *)
(* page, or an exception (render timeout, network failure).                *)
Render(url) ==
    CASE url = "u1" ->
            {OkPage(MkDoc(<<Span(T_1899)>>, <<>>, <<>>, <<>>, <<S_in_stock>>)),
             FailedPage("Timeout 60000ms exceeded")}
      [] url = "u2" ->
            {OkPage(MkDoc(<<>>, <<Span(T_1899)>>, <<>>, <<>>, <<S_out_online>>)),
             OkPage(MkDoc(<<>>, <<>>, <<JsonBlock(JDict(<<<<"price", JStr(T_999)>>>>))>>,
                          <<>>, <<>>)),
             OkPage(MkDoc(<<>>, <<>>, <<>>, <<Occurrence(FALSE, T_amt_week_out)>>,
                          <<S_unrelated>>))}
      [] url = "u3" ->
            {OkPage(MkDoc(<<Span(T_999)>>, <<>>, <<>>, <<>>, <<S_in_stock>>)),
             FailedPage("net::ERR_NAME_NOT_RESOLVED")}
      [] OTHER ->
            {OkPage(MkDoc(<<>>, <<>>, <<>>, <<Occurrence(TRUE, T_amt_1899)>>, <<>>)),
             OkPage(MkDoc(<<>>, <<>>, <<>>, <<>>, <<S_sold_out>>)),
             FailedPage("Timeout 60000ms exceeded")}

ErrorResult(s, msg) ==
    [store |-> s.name, price_aud |-> None, in_stock |-> "None", url |-> s.url,
     error |-> msg]

(* ScrapeStore without the try/except: a raised failure ends the run.     *)
ScrapeStore_NoExcept ==
    /\ pc = "scrape"
    /\ idx <= Len(stores)
    /\ \E page \in Render(stores[idx].url) :
          /\ results' = IF page.ok
                        THEN Append(results, scrape_store(page.doc, stores[idx]))
                        ELSE results
          /\ rendered' = IF page.ok THEN Append(rendered, page) ELSE rendered
          /\ pc' = IF page.ok THEN pc ELSE "done"
          /\ idx' = IF page.ok THEN idx + 1 ELSE idx
    /\ UNCHANGED <<stores, latest, hist, runlog, extractVars, discoverVars>>

(* One iteration of `for s in stores`: scrape_store, or the except branch. *)
ScrapeStore ==
    /\ pc = "scrape"
    /\ idx <= Len(stores)
    /\ \E page \in Render(stores[idx].url) :
          /\ results' = Append(results,
                               IF page.ok THEN scrape_store(page.doc, stores[idx])
                               ELSE ErrorResult(stores[idx], page.error))
          /\ rendered' = Append(rendered, page)
    /\ idx' = idx + 1
    /\ pc' = pc
    /\ UNCHANGED <<stores, latest, hist, runlog, extractVars, discoverVars>>

(* valid = [r for r in results if isinstance(r.get("price_aud"), ...)]     *)
Valid(rs) == SelectSeq(rs, LAMBDA r : r.price_aud # None)

(* Lowest taking the last of the cheapest.                                 *)
Lowest_LastOfTies(rs) ==
    LET valid == Valid(rs)
    IN  IF valid = <<>> THEN <<>>
        ELSE LET k == Max({i \in 1..Len(valid) :
                            \A j \in 1..Len(valid) :
                                valid[i].price_aud <= valid[j].price_aud})
             IN  <<valid[k]>>

(* min(valid, key=...) if valid else None: the first of the cheapest, as   *)
(* <<r>>; <<>> is None.                                                    *)
Lowest(rs) ==
    LET valid == Valid(rs)
    IN  IF valid = <<>> THEN <<>>
        ELSE LET k == Min({i \in 1..Len(valid) :
                            \A j \in 1..Len(valid) :
                                valid[i].price_aud <= valid[j].price_aud})
             IN  <<valid[k]>>

(* After the loop: the Snapshot written to out/latest.json.                *)
WriteSnapshot ==
    /\ pc = "scrape"
    /\ idx > Len(stores)
    /\ latest' = [written |-> TRUE, lowest |-> Lowest(results), stores |-> results]
    /\ pc' = "history"
    /\ UNCHANGED <<stores, idx, results, hist, rendered, runlog, extractVars,
                   discoverVars>>

DateLess(a, b) == a.date < b.date

(* Upsert that appends without looking for the day's entry.                *)
Upsert_AlwaysAppend(h, day, lowest_price) ==
    LET put == Append(h, [date |-> day, lowest_price_aud |-> lowest_price])
        srt == SortSeq(put, DateLess)
    IN  IF Len(srt) > Retention
        THEN SubSeq(srt, Len(srt) - Retention + 1, Len(srt))
        ELSE srt

(* Upsert that keeps the first 365 entries ([:365]) instead of the last.   *)
Upsert_KeepOldest(h, day, lowest_price) ==
    LET found == {i \in 1..Len(h) : h[i].date = day}
        put   == IF found # {}
                 THEN [h EXCEPT ![Min(found)].lowest_price_aud = lowest_price]
                 ELSE Append(h, [date |-> day, lowest_price_aud |-> lowest_price])
        srt   == SortSeq(put, DateLess)
    IN  IF Len(srt) > Retention THEN SubSeq(srt, 1, Retention) ELSE srt

(* lines 283-288 on the loaded history.                                    *)
Upsert(h, day, lowest_price) ==
    LET found == {i \in 1..Len(h) : h[i].date = day}
        put   == IF found # {}
                 THEN [h EXCEPT ![Min(found)].lowest_price_aud = lowest_price]
                 ELSE Append(h, [date |-> day, lowest_price_aud |-> lowest_price])
        srt   == SortSeq(put, DateLess)
    IN  IF Len(srt) > Retention
        THEN SubSeq(srt, Len(srt) - Retention + 1, Len(srt))
        ELSE srt

LastStoredDay == 800

OldDay == 1

(* The dates today_iso_date_tz() can return when the history is updated.   *)
Days == {OldDay, LastStoredDay - 1, LastStoredDay, LastStoredDay + 1}

(* The history update and save_history.                                    *)
UpdateHistory ==
    /\ pc = "history"
    /\ \E day \in Days :
          LET lowest_price == IF latest.lowest # <<>>
                              THEN latest.lowest[1].price_aud ELSE None
          IN  /\ hist' = Upsert(hist, day, lowest_price)
              /\ runlog' = Append(runlog, [day |-> day, lowest_price |-> lowest_price,
                                           before |-> hist, after |-> hist'])
    /\ pc' = "done"
    /\ UNCHANGED <<stores, idx, results, latest, rendered, extractVars,
                   discoverVars>>

(* main() is run again (the next scheduled run).                           *)
StartRun ==
    /\ pc = "done"
    /\ Len(runlog) < MaxRuns
    /\ pc' = "scrape"
    /\ idx' = 1
    /\ results' = <<>>
    /\ rendered' = <<>>
    /\ UNCHANGED <<stores, latest, hist, runlog, extractVars, discoverVars>>

(* The history files earlier runs leave: n entries on every second day up  *)
(* to LastStoredDay, each with the price of its day (None on some days).   *)
PriceOn(date) == IF date % 6 = 0 THEN None ELSE 60000 + 100 * (date % 400)

StoredHistory(n) ==
    [i \in 1..n |->
        [date |-> LastStoredDay - 2 * (n - i),
         lowest_price_aud |-> PriceOn(LastStoredDay - 2 * (n - i))]]

HistSizes == {0, 1, 2, Retention - 1, Retention}

NoSnapshot == [written |-> FALSE, lowest |-> <<>>, stores |-> <<>>]

NoCatalog == [must_include |-> <<>>, retailers |-> <<>>]

(* config/stores.yml before discover.py wrote it.                          *)
NotWritten == [done |-> FALSE, stores |-> <<>>]

Init ==
    /\ stores \in StoreLists
    /\ pc = "scrape"
    /\ idx = 1
    /\ results = <<>>
    /\ rendered = <<>>
    /\ latest = NoSnapshot
    /\ hist \in {StoredHistory(n) : n \in HistSizes}
    /\ runlog = <<>>
    /\ doc = MkDoc(<<>>, <<>>, <<>>, <<>>, <<>>)
    /\ store = StorePool[1]
    /\ res = <<>>
    /\ tried = <<>>
    /\ catalog = NoCatalog
    /\ dpc = "idle"
    /\ written = NotWritten

Next == ScrapeStore \/ WriteSnapshot \/ UpdateHistory \/ StartRun

Spec == Init /\ [][Next]_vars

-----------------------------------------------------------------------------
(* Claims about the run orchestrator, checked under Spec.                  *)

Range(f) == {f[i] : i \in DOMAIN f}

Dates(h) == {h[i].date : i \in DOMAIN h}

(* C1: the run appends exactly one result per retailer, in configuration   *)
(* order, whatever the pattern of successes and failures; a retailer whose *)
(* scrape raised gets a result with null price, null stock and the failure *)
(* message as error; the loop is never left before the last retailer, and  *)
(* the snapshot (holding these results) and the history are then written.  *)
C1_OneResultPerRetailer ==
    /\ Len(results) = Len(rendered)
    /\ Len(results) <= Len(stores)
    /\ \A i \in 1..Len(results) :
          /\ results[i].store = stores[i].name
          /\ results[i].url = stores[i].url
          /\ rendered[i].ok => results[i].error = NoError
          /\ ~rendered[i].ok =>
                /\ results[i].price_aud = None
                /\ results[i].in_stock = "None"
                /\ results[i].error = rendered[i].error
    /\ pc = "scrape" => idx = Len(results) + 1
    /\ pc \in {"history", "done"} =>
          /\ Len(results) = Len(stores)
          /\ latest.written
          /\ latest.stores = results
    /\ pc = "done" =>
          /\ runlog # <<>>
          /\ hist = runlog[Len(runlog)].after
          /\ Len(runlog[Len(runlog)].before) < Retention =>
                runlog[Len(runlog)].day \in Dates(hist)

(* C1 witness: a finished run of three retailers whose first scrape failed *)
(* and whose later scrapes succeeded.                                      *)
C1_Witness ==
    /\ pc = "done"
    /\ Len(stores) = 3
    /\ Len(results) = 3
    /\ ~rendered[1].ok
    /\ rendered[2].ok
    /\ results[2].price_aud # None

(* C2: the snapshot's lowest is the result with the minimum non-null price *)
(* of the run, the first in processing order among equals, and none when   *)
(* no result has a price; a result with a null price is never the lowest.  *)
C2_LowestIsFirstMinimum ==
    pc \in {"history", "done"} =>
        LET priced == {i \in 1..Len(results) : results[i].price_aud # None}
            best   == {i \in priced :
                          \A j \in priced : results[i].price_aud <= results[j].price_aud}
        IN  IF priced = {} THEN latest.lowest = <<>>
            ELSE /\ latest.lowest = <<results[Min(best)]>>
                 /\ latest.lowest[1].price_aud # None

(* C2 witness: the first retailer failed, the second and third share the   *)
(* minimum price, and the second is the lowest.                            *)
C2_Witness ==
    /\ pc = "done"
    /\ Len(results) = 3
    /\ results[1].price_aud = None
    /\ results[2].price_aud # None
    /\ results[2].price_aud = results[3].price_aud
    /\ latest.lowest = <<results[2]>>

OtherDates(h, day) == SelectSeq(h, LAMBDA e : e.date # day)

OnDate(h, day) == SelectSeq(h, LAMBDA e : e.date = day)

(* C3 as stated: two runs on the same date leave exactly one entry for the *)
(* date, with the second run's lowest price, and the entries of all other  *)
(* dates as they were stored before the first run.                         *)
C3_SameDayRerunAsStated ==
    \A k \in 1..(Len(runlog) - 1) :
        runlog[k].day = runlog[k + 1].day =>
            LET day == runlog[k].day
                h0  == runlog[k].before
                h2  == runlog[k + 1].after
            IN  /\ OnDate(h2, day) =
                      <<[date |-> day, lowest_price_aud |-> runlog[k + 1].lowest_price]>>
                /\ OtherDates(h2, day) = OtherDates(h0, day)

(* C3 amended: the same, except when the stored history already holds 365  *)
(* entries of other dates: then the oldest of the 366 dates is evicted by  *)
(* the first run, which is the oldest stored entry, or the run date's own  *)
(* entry when it is older than every stored date (no entry for the date    *)
(* remains and the stored entries are unchanged).                          *)
C3_SameDayRerun ==
    \A k \in 1..(Len(runlog) - 1) :
        runlog[k].day = runlog[k + 1].day =>
            LET day   == runlog[k].day
                h0    == runlog[k].before
                h2    == runlog[k + 1].after
                entry == [date |-> day, lowest_price_aud |-> runlog[k + 1].lowest_price]
                full  == Len(h0) = Retention /\ day \notin Dates(h0)
            IN  IF ~full
                THEN /\ OnDate(h2, day) = <<entry>>
                     /\ OtherDates(h2, day) = OtherDates(h0, day)
                ELSE IF \A d \in Dates(h0) : day < d
                THEN /\ OnDate(h2, day) = <<>>
                     /\ h2 = h0
                ELSE /\ OnDate(h2, day) = <<entry>>
                     /\ OtherDates(h2, day) = Tail(h0)

(* C3 witness: two runs on one new date against a full stored history, the *)
(* first with a price and the second with none.                            *)
C3_Witness ==
    /\ Len(runlog) = 2
    /\ runlog[1].day = runlog[2].day
    /\ Len(runlog[1].before) = Retention
    /\ runlog[1].day \notin Dates(runlog[1].before)
    /\ runlog[1].lowest_price # None
    /\ runlog[2].lowest_price = None
    /\ hist[Len(hist)].date = runlog[2].day
    /\ hist[Len(hist)].lowest_price_aud = None

(* C4: the saved history is sorted ascending by date and holds at most 365 *)
(* entries; a run that inserts a date making 366 distinct dates evicts     *)
(* exactly the entry with the oldest date and keeps every other entry, in  *)
(* sorted order.                                                           *)
C4_HistorySortedCapped ==
    /\ \A i \in 1..(Len(hist) - 1) : hist[i].date < hist[i + 1].date
    /\ Len(hist) <= Retention
    /\ \A k \in 1..Len(runlog) :
          LET e      == runlog[k]
              all    == Range(e.before)
                        \cup {[date |-> e.day, lowest_price_aud |-> e.lowest_price]}
              oldest == CHOOSE x \in all : \A y \in all : x.date <= y.date
          IN  (Len(e.before) = Retention /\ e.day \notin Dates(e.before)) =>
                  /\ Range(e.after) = all \ {oldest}
                  /\ Len(e.after) = Retention
                  /\ \A i \in 1..(Len(e.after) - 1) :
                        e.after[i].date < e.after[i + 1].date

(* C4 witness: a run inserted a 366th date between the stored ones, and    *)
(* the oldest stored entry is gone.                                        *)
C4_Witness ==
    /\ runlog # <<>>
    /\ Len(runlog[1].before) = Retention
    /\ runlog[1].day \notin Dates(runlog[1].before)
    /\ runlog[1].day = LastStoredDay - 1
    /\ runlog[1].before[1].date \notin Dates(runlog[1].after)
    /\ runlog[1].day \in Dates(runlog[1].after)

-----------------------------------------------------------------------------
(* scrape_store as a function of the rendered page: SpecExtract hands it   *)
(* every page of Docs and every store of ExtractStores.                    *)

StoreElsChoices ==
    {<<>>,
     <<Span(T_low)>>,
     <<Span(T_above)>>,
     <<Span(T_week_in)>>,
     <<Span(T_week_out), Span(T_1899)>>,
     <<Meta(T_meta_2499)>>}

GenericElsChoices ==
    {<<>>,
     <<Span(T_1899)>>,
     <<Span(T_high)>>,
     <<Span(T_below)>>,
     <<Span(T_nocomma)>>,
     <<Span(T_week_in), Span(T_1899)>>}

JsonldChoices ==
    {<<>>,
     <<JsonBlock(JDict(<<<<"name", JStr(S_add_to_cart)>>,
                         <<"offers", JDict(<<<<"price", JFloat(189900)>>>>)>>>>))>>,
     <<JsonBlock(JDict(<<<<"offers", JList(<<JDict(<<<<"price", JStr(T_str_1899)>>>>)>>)>>>>))>>,
     <<JsonBlock(JDict(<<<<"price", JStr(T_str_nocomma)>>>>))>>,
     <<JsonBlock(JDict(<<<<"lowPrice", JInt(50000)>>>>))>>,
     <<JsonBlock(JDict(<<<<"@graph", JList(<<JDict(<<<<"price", JInt(500000)>>>>)>>)>>>>))>>,
     <<EmptyBlock, BrokenBlock(T_raw_cheap),
       JsonBlock(JDict(<<<<"price", JStr(T_str_1899)>>>>))>>,
     <<BrokenBlock(T_raw_1899)>>,
     <<BrokenBlock(T_raw_above), JsonBlock(JDict(<<<<"price", JFloat(750050)>>>>))>>}

HtmlChoices ==
    {<<>>,
     <<Occurrence(TRUE, T_amt_week_in), Occurrence(FALSE, T_amt_1899)>>,
     <<Occurrence(FALSE, T_amt_week_out), Occurrence(FALSE, T_amt_1899),
       Occurrence(FALSE, T_amt_2499)>>,
     <<Occurrence(TRUE, T_amt_45), Occurrence(FALSE, T_amt_1899)>>,
     <<Occurrence(FALSE, T_amt_above), Occurrence(FALSE, T_amt_below)>>,
     <<Occurrence(TRUE, T_amt_high), Occurrence(TRUE, T_amt_low)>>}

StockChoices ==
    {<<>>,
     <<S_in_stock>>,
     <<S_out_online>>,
     <<S_unrelated, S_ready>>,
     <<S_preorder>>,
     <<S_unavailable>>,
     <<S_unrelated, S_sold_out>>,
     <<S_add_to_cart, S_unrelated>>}

Docs ==
    {MkDoc(se, ge, j, h, st) :
        se \in StoreElsChoices, ge \in GenericElsChoices, j \in JsonldChoices,
        h \in HtmlChoices, st \in StockChoices}

ExtractStores == {StorePool[1], StorePool[2], StorePool[3]}

(* scrape_store on the rendered page.                                      *)
Extract ==
    /\ res = <<>>
    /\ res' = <<scrape_store(doc, store)>>
    /\ tried' = Tried(doc, store)
    /\ UNCHANGED <<doc, store, mainVars, discoverVars>>

ExtractInit ==
    /\ doc \in Docs
    /\ store \in ExtractStores
    /\ res = <<>>
    /\ tried = <<>>
    /\ stores = <<>>
    /\ pc = "idle"
    /\ idx = 1
    /\ results = <<>>
    /\ rendered = <<>>
    /\ latest = NoSnapshot
    /\ hist = <<>>
    /\ runlog = <<>>
    /\ catalog = NoCatalog
    /\ dpc = "idle"
    /\ written = NotWritten

ExtractNext == Extract

SpecExtract == ExtractInit /\ [][ExtractNext]_vars

-----------------------------------------------------------------------------
(* Claims about price and stock extraction, checked under SpecExtract.     *)

(* C5 as stated: the four strategies' outputs are pooled, so the           *)
(* strategies later in the fixed order (generic locators, structured data, *)
(* regex scan) are evaluated on every page, also after an earlier one      *)
(* yielded a plausible value.                                              *)
C5_AllStrategiesEvaluated ==
    res # <<>> => {"generic", "jsonld", "regex"} \subseteq Range(tried)

(* What a text declares when read as a decimal number: the digits, with    *)
(* thousands commas and an optional "$", a "." and one or two decimals;    *)
(* None for any other text.                                                *)
DecimalValue(txt) ==
    LET body == IF txt # <<>> /\ txt[1] = "$" THEN Tail(txt) ELSE txt
        dots == {i \in 1..Len(body) : body[i] = "."}
    IN  IF /\ body # <<>>
           /\ IsDigit(body[1])
           /\ \A i \in 1..Len(body) : IsDigit(body[i]) \/ body[i] \in {",", "."}
           /\ Cardinality(dots) <= 1
           /\ \A i \in dots : Len(body) - i \in {1, 2}
        THEN ToCents(body)
        ELSE None

RECURSIVE DeclaredIn(_)
(* The prices a JSON value declares under its price-bearing keys.          *)
DeclaredIn(v) ==
    IF v.t = "dict"
    THEN UNION {LET k == v.items[i][1]
                    x == v.items[i][2]
                IN  (IF k \in Range(PriceKeys) /\ x.t \in {"int", "float"} THEN {x.c}
                     ELSE IF k \in Range(PriceKeys) /\ x.t = "str"
                     THEN {DecimalValue(x.txt)} \ {None}
                     ELSE {})
                    \cup DeclaredIn(x) : i \in 1..Len(v.items)}
    ELSE IF v.t = "list"
    THEN UNION {DeclaredIn(v.items[i]) : i \in 1..Len(v.items)}
    ELSE {}

(* The plausible prices a script block declares (for a text json.loads     *)
(* rejects: the "price": fields the fallback pattern reads).               *)
DeclaredPlausible(b) ==
    {c \in (CASE b.kind = "json"   -> DeclaredIn(b.data)
              [] b.kind = "broken" ->
                    {ToCents(SubSeq(b.raw, FallbackValStart(b.raw, k),
                                    FallbackEnd(b.raw, k) - 1)) :
                        k \in {i \in 1..Len(b.raw) : FallbackEnd(b.raw, i) # 0}}
              [] OTHER -> {}) :
        PlausibleLow <= c /\ c <= PlausibleHigh}

(* C6 as stated: when exactly one structured-data block of the page        *)
(* declares a price within the plausible range, the resolved price is that *)
(* declared value, whatever the other strategies find.                     *)
C6_StructuredPriceSelected ==
    res # <<>> =>
        LET declaring == {i \in 1..Len(doc.jsonld) :
                             DeclaredPlausible(doc.jsonld[i]) # {}}
        IN  \A i \in declaring :
                (declaring = {i} /\ Cardinality(DeclaredPlausible(doc.jsonld[i])) = 1)
                    => res[1].price_aud \in DeclaredPlausible(doc.jsonld[i])

IsWeekly(txt) == Contains(Lower(txt), T_per_week)

(* The figures the page shows to the locators the store uses and to the    *)
(* regex scan, each with whether its text says "per week".                 *)
Figures(d, s) ==
    {[value |-> extract_price_number(e.text), weekly |-> IsWeekly(e.text)] :
        e \in (IF s.price_selector THEN Range(d.store_els) ELSE {})
              \cup Range(d.generic_els)}
    \cup {[value |-> Amount(o), weekly |-> IsWeekly(o.amt)] :
             o \in {x \in Range(d.html) : DigitAt(x.amt, 1)}}

FullPrices(d, s) ==
    {f.value : f \in {g \in Figures(d, s) :
                         ~g.weekly /\ g.value # None
                         /\ PlausibleLow <= g.value /\ g.value <= PlausibleHigh}}

Instalments(d, s) ==
    {f.value : f \in {g \in Figures(d, s) : g.weekly /\ g.value # None}}

(* C7 as stated: on a page that holds a valid in-range price and a "per    *)
(* week" instalment figure below it, the resolved price is never the       *)
(* instalment figure, also when that figure is itself in range and stands  *)
(* in an element matched by an earlier locator.                            *)
C7_InstalmentNeverChosen ==
    res # <<>> =>
        \A i \in Instalments(doc, store) \ FullPrices(doc, store) :
            (\E f \in FullPrices(doc, store) : i < f) => res[1].price_aud # i

ClaimNegativeToks == {t_out_of_stock, t_sold_out, t_pre_order, t_backorder}

(* The text detect_in_stock classifies: the first that holds a phrase of   *)
(* the vocabulary; <<>> when none does.                                    *)
DecidingText(texts) ==
    LET hits == {i \in 1..Len(texts) :
                    \E tok \in AffirmativeToks \cup NegativeToks :
                        Contains(Lower(texts[i]), tok)}
    IN  IF hits = {} THEN <<>> ELSE Lower(texts[Min(hits)])

(* C8 as stated (its "in particular"): with no override phrase, a text     *)
(* that contains a negative phrase ("out of stock", "sold out",            *)
(* "pre-order", "backorder") is never classified true.                     *)
C8_NegativeNeverTrue ==
    (res # <<>> /\ store.in_stock_text = <<>>) =>
        (res[1].in_stock = "True" =>
            \A tok \in ClaimNegativeToks :
                ~Contains(DecidingText(doc.stock_els), tok))

(* C10: a non-null resolved price lies in the closed plausibility interval *)
(* and so does what each strategy returns; a figure exactly at the lower   *)
(* or the upper bound is accepted (it is the price when the first locator  *)
(* shows it), and a figure one cent outside is never the price.            *)
C10_PriceInPlausibleInterval ==
    res # <<>> =>
        LET p     == res[1].price_aud
            outs  == {try_css_price(doc.store_els), try_css_price(doc.generic_els),
                      try_jsonld_price(doc.jsonld), try_regex_price(doc.html)}
            first == IF store.price_selector /\ doc.store_els # <<>>
                     THEN extract_price_number(doc.store_els[1].text)
                     ELSE IF ~store.price_selector /\ doc.generic_els # <<>>
                     THEN extract_price_number(doc.generic_els[1].text)
                     ELSE None
        IN  /\ p # None => (PlausibleLow <= p /\ p <= PlausibleHigh)
            /\ \A q \in outs :
                  q # None => (PlausibleLow <= q /\ q <= PlausibleHigh)
            /\ first \in {PlausibleLow, PlausibleHigh} => p = first
            /\ p \notin {PlausibleLow - 1, PlausibleHigh + 1}

(* C10 witness: the store locator shows exactly the lower bound ($500) and *)
(* it is the resolved price, while the page's regex scan saw figures one   *)
(* cent outside both bounds.                                               *)
C10_Witness ==
    /\ res # <<>>
    /\ store.price_selector
    /\ doc.store_els = <<Span(T_low)>>
    /\ res[1].price_aud = PlausibleLow
    /\ doc.html = <<Occurrence(FALSE, T_amt_above), Occurrence(FALSE, T_amt_below)>>

-----------------------------------------------------------------------------
(* discover.py.  Lines 39-40 of the file (page = context.new_page(),       *)
(* stealth_sync(page)) stand at column 0 inside run()'s `with` block and   *)
(* line 44 is indented again, so Python rejects the file when it compiles  *)
(* it ("IndentationError: unexpected indent", line 44): run() is never     *)
(* defined, no retailer is searched and config/stores.yml is not written.  *)

MaxTargets == 2

TargetPool ==
    <<[name |-> "msy", url |-> "https://msy/p/1"],
      [name |-> "scorptec", url |-> "https://scorptec/product/2"],
      [name |-> "ple", url |-> "https://ple/item/3"]>>

RetailerPool ==
    <<[name |-> "scorptec", search_url |-> "https://scorptec/search?q={q}"],
      [name |-> "umart", search_url |-> "https://umart/search?q={q}"],
      [name |-> "jw", search_url |-> "https://jw/search?q={q}"]>>

(* The lists of at most MaxTargets distinct entries of a pool.             *)
ListsOf(pool) ==
    UNION {{[i \in 1..n |-> pool[f[i]]] :
               f \in {g \in [1..n -> 1..Len(pool)] :
                         \A a, b \in 1..n : a # b => g[a] # g[b]}} :
           n \in 0..MaxTargets}

Catalogs ==
    {[must_include |-> m, retailers |-> r] :
        m \in ListsOf(TargetPool), r \in ListsOf(RetailerPool)}

(* `python discover.py`: the compiler's IndentationError.                  *)
DiscoverLoad ==
    /\ dpc = "start"
    /\ dpc' = "IndentationError"
    /\ written' = written
    /\ UNCHANGED <<catalog, mainVars, extractVars>>

DiscoverInit ==
    /\ catalog \in Catalogs
    /\ dpc = "start"
    /\ written = NotWritten
    /\ stores = <<>>
    /\ pc = "idle"
    /\ idx = 1
    /\ results = <<>>
    /\ rendered = <<>>
    /\ latest = NoSnapshot
    /\ hist = <<>>
    /\ runlog = <<>>
    /\ doc = MkDoc(<<>>, <<>>, <<>>, <<>>, <<>>)
    /\ store = StorePool[1]
    /\ res = <<>>
    /\ tried = <<>>

DiscoverNext == DiscoverLoad

SpecDiscover == DiscoverInit /\ [][DiscoverNext]_vars

(* C9 as stated (its must-include part): when discovery has ended, every   *)
(* statically configured must-include target is in the written retailer    *)
(* target mapping, which holds at most one entry per retailer name.        *)
C9_MustIncludeWritten ==
    dpc # "start" =>
        /\ \A i \in 1..Len(catalog.must_include) :
              \E k \in 1..Len(written.stores) :
                  /\ written.stores[k].name = catalog.must_include[i].name
                  /\ written.stores[k].url = catalog.must_include[i].url
        /\ \A a, b \in 1..Len(written.stores) :
              written.stores[a].name = written.stores[b].name => a = b

====
